---- MODULE Spec2Model ----
(***************************************************************************)
(* Valentine card page (src/app/page.tsx) and the Discord avatar lookup    *)
(* route (src/unnamed/part_000, the route module at lines 86-180).         *)
(*                                                                         *)
(* Strings are sequences of one-character strings.  A nullable JavaScript  *)
(* string is a record [t, v]: t = "null", t = "undefined" or t = "str"     *)
(* with v the characters.                                                  *)
(***************************************************************************)
EXTENDS Integers, Sequences, FiniteSets, TLC

(***************************************************************************)
(* JavaScript values and string primitives                                 *)
(***************************************************************************)
Null == [t |-> "null", v |-> <<>>]

Undefined == [t |-> "undefined", v |-> <<>>]

Str(s) == [t |-> "str", v |-> s]

\* ToBoolean on a nullable string: null, undefined and "" are falsy.
Truthy(x) == x.t = "str" /\ x.v # <<>>

\* a || b
Or(a, b) == IF Truthy(a) THEN a ELSE b

RECURSIVE TrimStart(_)
TrimStart(s) ==
  IF s = <<>> THEN s
  ELSE IF Head(s) = " " THEN TrimStart(Tail(s)) ELSE s

RECURSIVE TrimEnd(_)
TrimEnd(s) ==
  IF s = <<>> THEN s
  ELSE IF s[Len(s)] = " " THEN TrimEnd(SubSeq(s, 1, Len(s) - 1)) ELSE s

\* String.prototype.trim
Trim(s) == TrimEnd(TrimStart(s))

LowerChar(c) ==
  CASE c = "A" -> "a"
    [] c = "B" -> "b"
    [] c = "H" -> "h"
    [] c = "K" -> "k"
    [] OTHER -> c

\* String.prototype.toLowerCase
ToLowerCase(s) == [i \in 1..Len(s) |-> LowerChar(s[i])]

\* String.prototype.startsWith
StartsWith(s, p) == Len(s) >= Len(p) /\ SubSeq(s, 1, Len(p)) = p

\* encodeURIComponent: letters, digits and "_" pass, the rest is escaped.
EncodeChar(c) ==
  CASE c = " " -> <<"%", "2", "0">>
    [] c = "&" -> <<"%", "2", "6">>
    [] c = "%" -> <<"%", "2", "5">>
    [] OTHER -> <<c>>

RECURSIVE encodeURIComponent(_)
encodeURIComponent(s) ==
  IF s = <<>> THEN <<>>
  ELSE EncodeChar(Head(s)) \o encodeURIComponent(Tail(s))

\* URLSearchParams percent-decoding of one query value ("+" reads as a space).
RECURSIVE DecodeParam(_)
DecodeParam(s) ==
  IF s = <<>> THEN <<>>
  ELSE IF Len(s) >= 3 /\ SubSeq(s, 1, 3) = <<"%", "2", "0">>
    THEN <<" ">> \o DecodeParam(SubSeq(s, 4, Len(s)))
  ELSE IF Len(s) >= 3 /\ SubSeq(s, 1, 3) = <<"%", "2", "6">>
    THEN <<"&">> \o DecodeParam(SubSeq(s, 4, Len(s)))
  ELSE IF Len(s) >= 3 /\ SubSeq(s, 1, 3) = <<"%", "2", "5">>
    THEN <<"%">> \o DecodeParam(SubSeq(s, 4, Len(s)))
  ELSE IF Head(s) = "+" THEN <<" ">> \o DecodeParam(Tail(s))
  ELSE <<Head(s)>> \o DecodeParam(Tail(s))

(***************************************************************************)
(* Discord account identifiers.  A snowflake is a 64-bit number sent as a  *)
(* decimal string; dec is that string and hi2, hi1, mid, lo are its bits   *)
(* 48..63, 32..47, 22..31 and 0..21, so that no intermediate value leaves  *)
(* the range of the model checker's integers.                              *)
(***************************************************************************)
Snowflake(d, a, b, c, e) == [dec |-> d, hi2 |-> a, hi1 |-> b, mid |-> c, lo |-> e]

SampleIds ==
  { Snowflake("20971520", 0, 0, 5, 0),
    Snowflake("2147483648", 0, 0, 512, 0),
    Snowflake("4294967296", 0, 1, 0, 0),
    Snowflake("80351110224678912", 285, 30440, 729, 4096),
    Snowflake("1204347102457163847", 4278, 45903, 48, 3862599),
    Snowflake("1152921504611041279", 4096, 0, 0, 4194303) }

RECURSIVE BitLen(_)
BitLen(n) == IF n = 0 THEN 0 ELSE 1 + BitLen(n \div 2)

RECURSIVE Pow2(_)
Pow2(k) == IF k = 0 THEN 1 ELSE 2 * Pow2(k - 1)

\* Number of significant bits of the identifier.
Bits(id) ==
  IF id.hi2 > 0 THEN 48 + BitLen(id.hi2)
  ELSE IF id.hi1 > 0 THEN 32 + BitLen(id.hi1)
  ELSE IF id.mid > 0 THEN 22 + BitLen(id.mid)
  ELSE BitLen(id.lo)

\* parseInt(user.id): the nearest IEEE double (53 significant bits, ties to
\* even).  Above 2^53 the low bits are rounded to a multiple of 2^(bits-53),
\* at most 2^11, with a carry into bit 22 when the low chunk rounds up to 2^22.
\* Only the low 32 bits of the result are kept: ToInt32 discards the rest.
ParseIntLow32(id) ==
  IF Bits(id) <= 53 THEN [mid |-> id.mid, lo |-> id.lo]
  ELSE
    LET g == Pow2(Bits(id) - 53)
        q == id.lo \div g
        r == id.lo % g
        up == r > g \div 2 \/ (r = g \div 2 /\ q % 2 = 1)
        rounded == (IF up THEN q + 1 ELSE q) * g
    IN  IF rounded = 4194304
        THEN [mid |-> (id.mid + 1) % 1024, lo |-> 0]
        ELSE [mid |-> id.mid, lo |-> rounded]

\* (x >> 22) on the 32-bit two's-complement value with bits mid:lo; the shift
\* is arithmetic, so bit 31 set gives a negative result.
Int32Shr22(w) == IF w.mid >= 512 THEN w.mid - 1024 ELSE w.mid

\* JavaScript's % on numbers truncates toward zero.
JsRem(a, b) == IF a >= 0 THEN a % b ELSE -((-a) % b)

\* const index = (parseInt(user.id) >> 22) % 6
DefaultIndex(id) == JsRem(Int32Shr22(ParseIntLow32(id)), 6)

\* (BigInt(user.id) >> BigInt(22)) % BigInt(6), the earlier route module's
\* computation: exact on all 64 bits.  2^10 and 2^26 are both 4 modulo 6.
DefaultIndexBigInt(id) == ((id.hi2 % 6) * 4 + (id.hi1 % 6) * 4 + id.mid) % 6

(***************************************************************************)
(* The directory's answer and the lookup route                             *)
(***************************************************************************)
\* One guild member of the search result.  hasUser = FALSE is an entry
\* without its user object; nick, global_name, avatar (guild-scoped) and
\* uavatar (user.avatar) are nullable strings.
Member(hu, un, nk, gn, av, ua, i) ==
  [hasUser |-> hu, username |-> un, nick |-> nk, global_name |-> gn,
   avatar |-> av, uavatar |-> ua, id |-> i]

\* A response of the route: status and the keys of the JSON body
\* (Undefined where the body has no such key).
Response(st, au, dn, un, er, msg) ==
  [status |-> st, avatarUrl |-> au, displayName |-> dn, username |-> un,
   error |-> er, message |-> msg]

\* NextResponse.json({ error: "Username required" }, { status: 400 })
BadRequest ==
  Response(400, Undefined, Undefined, Undefined,
           Str(<<"Username required">>), Undefined)

\* NextResponse.json({ avatarUrl: null, displayName: null, message: ... })
Unconfigured ==
  Response(200, Null, Null, Undefined, Undefined,
           Str(<<"Discord bot not configured.">>))

\* NextResponse.json({ avatarUrl: null, displayName: null })
NotFound == Response(200, Null, Null, Undefined, Undefined, Undefined)

\* What the caller sees when the handler's promise rejects: no JSON answer
\* of the route, the framework's 500.
Threw == Response(500, Undefined, Undefined, Undefined, Undefined, Undefined)

\* m.user.username.toLowerCase() === username.toLowerCase() || (m.nick && ...)
\*   || (m.user.global_name && ...)
IsExact(m, username) ==
  \/ ToLowerCase(m.username) = ToLowerCase(username)
  \/ (Truthy(m.nick) /\ ToLowerCase(m.nick.v) = ToLowerCase(username))
  \/ (Truthy(m.global_name)
        /\ ToLowerCase(m.global_name.v) = ToLowerCase(username))

\* members.find(...): the index of the first member the predicate accepts,
\* 0 when there is none, -1 when the predicate throws (m.user is undefined)
\* before any member is accepted.
RECURSIVE FindFrom(_, _, _)
FindFrom(members, username, i) ==
  IF i > Len(members) THEN 0
  ELSE IF ~members[i].hasUser THEN -1
  ELSE IF IsExact(members[i], username) THEN i
  ELSE FindFrom(members, username, i + 1)

FindExact(members, username) == FindFrom(members, username, 1)

\* The selection without the exact-match search: always members[0].
SelectIndex_First(members, username) == 1

\* const member = exact || members[0]
SelectIndex(members, username) ==
  LET e == FindExact(members, username) IN IF e = 0 THEN 1 ELSE e

Ext(hash) == IF StartsWith(hash, <<"a", "_">>) THEN "gif" ELSE "png"

\* The avatar URL with the account's avatar tried before the guild's.
BuildAvatarUrl_AccountFirst(member, guildId) ==
  IF Truthy(member.uavatar)
  THEN <<"https://cdn.discordapp.com/avatars/", member.id.dec, "/">>
         \o member.uavatar.v
         \o <<".", Ext(member.uavatar.v), "?size=256">>
  ELSE IF Truthy(member.avatar)
  THEN <<"https://cdn.discordapp.com/guilds/">> \o guildId
         \o <<"/users/", member.id.dec, "/avatars/">> \o member.avatar.v
         \o <<".", Ext(member.avatar.v), "?size=256">>
  ELSE <<"https://cdn.discordapp.com/embed/avatars/",
         ToString(DefaultIndex(member.id)), ".png">>

\* The avatar URL of the selected member.
BuildAvatarUrl(member, guildId) ==
  IF Truthy(member.avatar)
  THEN <<"https://cdn.discordapp.com/guilds/">> \o guildId
         \o <<"/users/", member.id.dec, "/avatars/">> \o member.avatar.v
         \o <<".", Ext(member.avatar.v), "?size=256">>
  ELSE IF Truthy(member.uavatar)
  THEN <<"https://cdn.discordapp.com/avatars/", member.id.dec, "/">>
         \o member.uavatar.v
         \o <<".", Ext(member.uavatar.v), "?size=256">>
  ELSE <<"https://cdn.discordapp.com/embed/avatars/",
         ToString(DefaultIndex(member.id)), ".png">>

\* member.nick || user.global_name || user.username
BuildDisplayName(member) ==
  Or(member.nick, Or(member.global_name, Str(member.username)))

\* The outcome of the directory fetch: rejected, or an HTTP answer with its
\* ok flag, whether res.text() throws, and what res.json() gives ("throws",
\* "null", "object" for a body that is no array, "array" with the members).
Reply(k, ok, text, json, members) ==
  [kind |-> k, ok |-> ok, text |-> text, json |-> json, members |-> members]

NoReply == Reply("none", FALSE, "ok", "null", <<>>)

\* GETstart testing the bot token only: a missing guild id goes on to the
\* directory.
GETstart_TokenOnly(username, token, guild) ==
  IF ~Truthy(username) THEN [call |-> FALSE, resp |-> BadRequest]
  ELSE IF ~Truthy(token) THEN [call |-> FALSE, resp |-> Unconfigured]
  ELSE [call |-> TRUE, resp |-> NotFound]

\* GETstart testing the configuration before the username.
GETstart_ConfigFirst(username, token, guild) ==
  IF ~Truthy(token) \/ ~Truthy(guild)
    THEN [call |-> FALSE, resp |-> Unconfigured]
  ELSE IF ~Truthy(username) THEN [call |-> FALSE, resp |-> BadRequest]
  ELSE [call |-> TRUE, resp |-> NotFound]

\* GET up to its first await: the 400, the unconfigured answer, or the
\* directory search request.
GETstart(username, token, guild) ==
  IF ~Truthy(username) THEN [call |-> FALSE, resp |-> BadRequest]
  ELSE IF ~Truthy(token) \/ ~Truthy(guild)
    THEN [call |-> FALSE, resp |-> Unconfigured]
  ELSE [call |-> TRUE, resp |-> NotFound]

\* The body of the try block from the directory's answer on: either it
\* returns a response or it throws.
TryBody(username, guild, d) ==
  IF d.kind = "reject" THEN [threw |-> TRUE, resp |-> Threw]
  ELSE IF ~d.ok
    THEN IF d.text = "throws" THEN [threw |-> TRUE, resp |-> Threw]
         ELSE [threw |-> FALSE, resp |-> NotFound]
  ELSE IF d.json = "throws" THEN [threw |-> TRUE, resp |-> Threw]
  ELSE IF d.json = "null" THEN [threw |-> FALSE, resp |-> NotFound]
  ELSE IF d.json = "object" THEN [threw |-> TRUE, resp |-> Threw]
  ELSE IF Len(d.members) = 0 THEN [threw |-> FALSE, resp |-> NotFound]
  ELSE IF FindExact(d.members, username.v) = -1
    THEN [threw |-> TRUE, resp |-> Threw]
  ELSE
    LET member == d.members[SelectIndex(d.members, username.v)]
    IN  [threw |-> FALSE,
         resp |-> Response(200, Str(BuildAvatarUrl(member, guild.v)),
                           BuildDisplayName(member), Str(member.username),
                           Undefined, Undefined)]

\* GETfinish without the catch: what the body throws reaches the caller.
GETfinish_NoCatch(username, guild, d) == TryBody(username, guild, d).resp

\* try { ... } catch (error) { return NextResponse.json({ avatarUrl: null,
\* displayName: null }) }
GETfinish(username, guild, d) ==
  LET b == TryBody(username, guild, d)
  IN  IF b.threw THEN NotFound ELSE b.resp

\* The whole of GET for a caller that only sees the response.
GET(username, token, guild, d) ==
  LET s == GETstart(username, token, guild)
  IN  IF s.call THEN GETfinish(username, guild, d) ELSE s.resp

(***************************************************************************)
(* The page: getFallbackAvatar, the lookup as the page sees it, CardData   *)
(***************************************************************************)
getFallbackAvatar(seed) ==
  <<"https://api.dicebear.com/7.x/identicon/svg?seed=">>
    \o encodeURIComponent(seed) \o <<"&backgroundColor=9E7B9F">>

\* The outcome of fetch("/api/discord-avatar?username=...") and res.json():
\* rejected, or an HTTP answer with res.ok, and the parsed body ("throws",
\* "null" for a body that is JSON null, "object" with its avatarUrl key).
Fetched(k, ok, json, au) == [kind |-> k, ok |-> ok, json |-> json, avatarUrl |-> au]

\* The route's response as the page's fetch receives it.
FromRoute(resp) ==
  Fetched("http", resp.status >= 200 /\ resp.status <= 299, "object",
          resp.avatarUrl)

\* try { const res = await fetch(...);
\*       if (res.ok) { const data = await res.json(); avatar = data.avatarUrl; }
\* } catch { /* fallback */ }       with avatar initially null
AfterLookup(o) ==
  IF o.kind = "http" /\ o.ok /\ o.json = "object" THEN o.avatarUrl ELSE Null

\* The form fields a render of the page closes over.
Form(su, sn, ru, rn, msg) ==
  [senderUsername |-> su, senderName |-> sn, receiverUsername |-> ru,
   receiverName |-> rn, message |-> msg]

\* useState<CardData | null>(null): isNull marks the null.
NoCard ==
  [isNull |-> TRUE, senderUsername |-> <<>>, senderName |-> <<>>,
   receiverUsername |-> <<>>, receiverName |-> <<>>, message |-> <<>>,
   senderAvatar |-> Null, receiverAvatar |-> Null]

\* MakeCard with ?? in place of ||: an empty avatarUrl is kept.
MakeCard_Nullish(f, sa, ra) ==
  [isNull |-> FALSE,
   senderUsername |-> Trim(f.senderUsername),
   senderName |-> Trim(f.senderName),
   receiverUsername |-> Trim(f.receiverUsername),
   receiverName |-> Trim(f.receiverName),
   message |-> Trim(f.message),
   senderAvatar |->
     IF sa.t = "str" THEN sa
     ELSE Str(getFallbackAvatar(
                IF Trim(f.senderUsername) # <<>>
                THEN Trim(f.senderUsername) ELSE Trim(f.senderName))),
   receiverAvatar |->
     IF ra.t = "str" THEN ra
     ELSE Str(getFallbackAvatar(
                IF Trim(f.receiverUsername) # <<>>
                THEN Trim(f.receiverUsername) ELSE Trim(f.receiverName)))]

\* MakeCard seeding the fallback from the display name before the handle.
MakeCard_NameSeed(f, sa, ra) ==
  [isNull |-> FALSE,
   senderUsername |-> Trim(f.senderUsername),
   senderName |-> Trim(f.senderName),
   receiverUsername |-> Trim(f.receiverUsername),
   receiverName |-> Trim(f.receiverName),
   message |-> Trim(f.message),
   senderAvatar |-> Or(sa, Str(getFallbackAvatar(Trim(f.senderName)))),
   receiverAvatar |-> Or(ra, Str(getFallbackAvatar(Trim(f.receiverName))))]

\* The object literal handed to setCardData.
MakeCard(f, sa, ra) ==
  [isNull |-> FALSE,
   senderUsername |-> Trim(f.senderUsername),
   senderName |-> Trim(f.senderName),
   receiverUsername |-> Trim(f.receiverUsername),
   receiverName |-> Trim(f.receiverName),
   message |-> Trim(f.message),
   senderAvatar |->
     Or(sa, Str(getFallbackAvatar(
                  IF Trim(f.senderUsername) # <<>>
                  THEN Trim(f.senderUsername) ELSE Trim(f.senderName)))),
   receiverAvatar |->
     Or(ra, Str(getFallbackAvatar(
                  IF Trim(f.receiverUsername) # <<>>
                  THEN Trim(f.receiverUsername) ELSE Trim(f.receiverName))))]

\* The guard with the receiver's name forgotten.
NamesMissing_SenderOnly(f) == Trim(f.senderName) = <<>>

\* if (!senderName.trim() || !receiverName.trim()) return;
NamesMissing(f) == Trim(f.senderName) = <<>> \/ Trim(f.receiverName) = <<>>

\* The query string of the lookup request for a handle.
LookupQuery(handle) == encodeURIComponent(Trim(handle))

\* The initial text of the message field.
DefaultMessage ==
  <<
     "I", " ", "j", "u", "s", "t", " ", "w", "a", "n", "t", "e", "d", " ",
     "t", "o", " ", "l", "e", "t", " ", "y", "o", "u", " ", "k", "n", "o",
     "w", " ", "I", " ", "a", "p", "p", "r", "e", "c", "i", "a", "t", "e",
     " ", "y", "o", "u", " ", "&", " ", "I", " ", "b", "e", "l", "i", "e",
     "v", "e", " ", "i", "n", " ", "y", "o", "u", ".", " ", "Y", "o", "u",
     " ", "a", "r", "e", " ", "d", "o", "i", "n", "g", " ", "s", "o", " ",
     "s", "o", " ", "w", "e", "l", "l", ".", " ", "K", "e", "e", "p", " ",
     "g", "o", "i", "n", "g", "!"
  >>

(***************************************************************************)
(* Values the model offers to the inputs                                   *)
(***************************************************************************)
SenderNames == { <<>>, <<" ", "a">> }

ReceiverNames == { <<>>, <<" ">>, <<"b", " ">> }

SenderHandles == { <<>>, <<" ", "H", " ", "k", " ">> }

ReceiverHandles == { <<>>, <<" ">>, <<"h", "&">> }

Messages == { DefaultMessage, <<" ", "h", "i", " ">> }

\* process.env values: unset, empty, set.
TokenValues == { Undefined, Str(<<>>), Str(<<"t", "0", "k">>) }

GuildValues == { Undefined, Str(<<>>), Str(<<"9", "1">>) }

\* The username query parameter of a request to the route: absent, empty,
\* or a handle.
UsernameParams ==
  { Null, Str(<<>>), Str(<<"h">>), Str(<<"H">>), Str(<<"z">>) }

IdA == Snowflake("20971520", 0, 0, 5, 0)

NameFields ==
  { <<<<"h">>, Null, Null>>,
    <<<<"x">>, Str(<<"H">>), Null>>,
    <<<<"y">>, Null, Str(<<"h">>)>>,
    <<<<"w">>, Str(<<>>), Str(<<"v">>)>> }

AvatarFields ==
  { <<Str(<<"a", "_", "1">>), Str(<<"f", "0">>)>>,
    <<Null, Str(<<"a", "_", "2">>)>>,
    <<Null, Str(<<"a", "9">>)>>,
    <<Str(<<>>), Str(<<"f", "0">>)>>,
    <<Str(<<"g", "1">>), Null>>,
    <<Null, Null>> }

SampleMembers ==
  { Member(TRUE, n[1], n[2], n[3], a[1], a[2], IdA) :
      n \in NameFields,
      a \in { <<Str(<<"a", "_", "1">>), Str(<<"f", "0">>)>>, <<Null, Null>> } }
  \cup { Member(TRUE, <<"h">>, Null, Null, a[1], a[2], IdA) : a \in AvatarFields }
  \cup { Member(TRUE, <<"h">>, Null, Null, Null, Null, i) : i \in SampleIds }
  \cup { Member(FALSE, <<>>, Null, Null, Null, Null, IdA) }

\* The directory answers with at most MaxMembers candidates (the route asks
\* for limit=5).
MaxMembers == 2

MemberLists == UNION { [1..n -> SampleMembers] : n \in 0..MaxMembers }

Replies ==
  { Reply("reject", FALSE, "ok", "null", <<>>),
    Reply("http", FALSE, "ok", "null", <<>>),
    Reply("http", FALSE, "throws", "null", <<>>),
    Reply("http", TRUE, "ok", "throws", <<>>),
    Reply("http", TRUE, "ok", "null", <<>>),
    Reply("http", TRUE, "ok", "object", <<>>) }
  \cup { Reply("http", TRUE, "ok", "array", ms) : ms \in MemberLists }

(***************************************************************************)
(* State                                                                   *)
(***************************************************************************)
VARIABLES
  \* the route module and one request through it
  DISCORD_BOT_TOKEN, DISCORD_GUILD_ID,
  apiPc,          \* "idle", "awaitDirectory" (at await fetch), "done"
  apiUsername,    \* the username query parameter of the request
  apiResp,        \* the response returned
  dirCalls,       \* directory requests made for this request
  dirReply,       \* what the directory fetch gave
  \* ValentineCardPage
  step, senderUsername, senderName, receiverUsername, receiverName, message,
  cardData, loading,
  \* the running handleGenerate
  pc,             \* "idle", "awaitSender", "awaitReceiver"
  snap,           \* the form fields the running handler closed over
  senderAvatar, receiverAvatar,   \* its locals
  sent,           \* lookup requests the latest started handler has issued
  hgResult,       \* how the latest handleGenerate call went
  \* font size of the message
  msgLen, previewFont, canvasFont,
  \* capitalize applied to a name, and to its result
  capIn, capOut, capTwice, capPc,
  \* handleDownload and renderCardToCanvas: position, the card being drawn,
  \* the image loads settled so far, the canvas operations so far, whether
  \* handleDownload's catch ran, and the download offered
  rPc, rCard, loads, drawn, caught, link

apiVars ==
  <<DISCORD_BOT_TOKEN, DISCORD_GUILD_ID, apiPc, apiUsername, apiResp,
    dirCalls, dirReply>>

formVars ==
  <<senderUsername, senderName, receiverUsername, receiverName, message>>

handlerVars == <<pc, snap, senderAvatar, receiverAvatar, sent, hgResult>>

pageVars == <<step, formVars, cardData, loading, handlerVars>>

fontVars == <<msgLen, previewFont, canvasFont>>

capVars == <<capIn, capOut, capTwice, capPc>>

\* The variables of the pure functions checked on their own.
renderVars == <<rPc, rCard, loads, drawn, caught, link>>

pureVars == <<fontVars, capVars, renderVars>>

vars == <<apiVars, pageVars, pureVars>>

\* No response yet.
NoResponse == Response(0, Undefined, Undefined, Undefined, Undefined, Undefined)

ApiQuiet ==
  /\ DISCORD_BOT_TOKEN = Undefined
  /\ DISCORD_GUILD_ID = Undefined
  /\ apiPc = "idle"
  /\ apiUsername = Null
  /\ apiResp = NoResponse
  /\ dirCalls = 0
  /\ dirReply = NoReply

\* The useState initial values of ValentineCardPage.
PageInit ==
  /\ step = "form"
  /\ senderUsername = <<>>
  /\ senderName = <<>>
  /\ receiverUsername = <<>>
  /\ receiverName = <<>>
  /\ message = DefaultMessage
  /\ cardData = NoCard
  /\ loading = FALSE
  /\ pc = "idle"
  /\ snap = Form(<<>>, <<>>, <<>>, <<>>, <<>>)
  /\ senderAvatar = Null
  /\ receiverAvatar = Null
  /\ sent = <<>>
  /\ hgResult = "none"

FontQuiet == msgLen = 0 /\ previewFont = 0 /\ canvasFont = 0

CapQuiet == capIn = <<>> /\ capOut = <<>> /\ capTwice = <<>> /\ capPc = "in"

\* No download offered.
NoLink == <<>>

RenderQuiet ==
  /\ rPc = "idle" /\ rCard = NoCard /\ loads = <<>> /\ drawn = <<>>
  /\ caught = FALSE /\ link = NoLink

(***************************************************************************)
(* The route as a process: a request arrives, GET runs to its await or     *)
(* its return, the directory answers, GET returns.                         *)
(***************************************************************************)
ApiInit ==
  /\ DISCORD_BOT_TOKEN \in TokenValues
  /\ DISCORD_GUILD_ID \in GuildValues
  /\ apiPc = "idle"
  /\ apiUsername = Null
  /\ apiResp = NoResponse
  /\ dirCalls = 0
  /\ dirReply = NoReply

ApiRequest(u) ==
  /\ apiPc \in {"idle", "done"}
  /\ apiUsername' = u
  /\ dirReply' = NoReply
  /\ LET s == GETstart(u, DISCORD_BOT_TOKEN, DISCORD_GUILD_ID)
     IN  IF s.call
         THEN apiPc' = "awaitDirectory" /\ dirCalls' = 1 /\ apiResp' = NoResponse
         ELSE apiPc' = "done" /\ dirCalls' = 0 /\ apiResp' = s.resp
  /\ UNCHANGED <<DISCORD_BOT_TOKEN, DISCORD_GUILD_ID, pageVars, pureVars>>

ApiDirectoryReply(d) ==
  /\ apiPc = "awaitDirectory"
  /\ apiPc' = "done"
  /\ dirReply' = d
  /\ apiResp' = GETfinish(apiUsername, DISCORD_GUILD_ID, d)
  /\ UNCHANGED <<DISCORD_BOT_TOKEN, DISCORD_GUILD_ID, apiUsername, dirCalls,
                 pageVars, pureVars>>

ApiNext ==
  \/ \E u \in UsernameParams : ApiRequest(u)
  \/ \E d \in Replies : ApiDirectoryReply(d)

InitApi == ApiInit /\ PageInit /\ FontQuiet /\ CapQuiet /\ RenderQuiet

SpecApi == InitApi /\ [][ApiNext]_vars

(***************************************************************************)
(* The page                                                                *)
(***************************************************************************)
\* A small sample of directory answers behind the page's lookups.
PageReplies ==
  { Reply("reject", FALSE, "ok", "null", <<>>),
    Reply("http", TRUE, "ok", "array", <<>>),
    Reply("http", TRUE, "ok", "array",
          << Member(TRUE, <<"h">>, Null, Null, Null, Str(<<"f", "0">>), IdA) >>) }

\* What a lookup for the handle can come back with: a failed transport, a
\* non-OK or unparsable answer, a body without a usable avatarUrl, or the
\* route's response under some configuration and directory answer.
LookupOutcomes(handle) ==
  { Fetched("reject", FALSE, "throws", Undefined),
    Fetched("http", FALSE, "object", Undefined),
    Fetched("http", TRUE, "throws", Undefined),
    Fetched("http", TRUE, "null", Undefined),
    Fetched("http", TRUE, "object", Undefined),
    Fetched("http", TRUE, "object", Str(<<>>)) }
  \cup { FromRoute(GET(Str(DecodeParam(LookupQuery(handle))), t, g, d)) :
           t \in TokenValues, g \in GuildValues, d \in PageReplies }

CurrentForm ==
  Form(senderUsername, senderName, receiverUsername, receiverName, message)

\* setCardData({...}); setStep("card"); setLoading(false);
Finish(f, sa, ra) ==
  /\ cardData' = MakeCard(f, sa, ra)
  /\ step' = "card"
  /\ loading' = FALSE
  /\ pc' = "idle"

\* A click on Generate: handleGenerate from its start to its first await,
\* or to its end when no handle was typed.  One handler runs at a time (the
\* button is disabled while loading).
HandleGenerate ==
  /\ pc = "idle"
  /\ step = "form"
  /\ LET f == CurrentForm IN
       IF NamesMissing(f)
       THEN /\ hgResult' = "rejected"
            /\ UNCHANGED <<step, formVars, cardData, loading, pc, snap,
                           senderAvatar, receiverAvatar, sent>>
       ELSE /\ hgResult' = "started"
            /\ snap' = f
            /\ senderAvatar' = Null
            /\ receiverAvatar' = Null
            /\ IF Trim(f.senderUsername) # <<>>
               THEN /\ loading' = TRUE
                    /\ pc' = "awaitSender"
                    /\ sent' = <<LookupQuery(f.senderUsername)>>
                    /\ UNCHANGED <<step, cardData>>
               ELSE IF Trim(f.receiverUsername) # <<>>
               THEN /\ loading' = TRUE
                    /\ pc' = "awaitReceiver"
                    /\ sent' = <<LookupQuery(f.receiverUsername)>>
                    /\ UNCHANGED <<step, cardData>>
               ELSE /\ sent' = <<>>
                    /\ Finish(f, Null, Null)
            /\ UNCHANGED formVars
  /\ UNCHANGED <<apiVars, pureVars>>

\* A handler that publishes the card as soon as the sender's lookup has
\* settled, before the receiver's lookup.
SenderSettled_EarlyCard(o) ==
  /\ pc = "awaitSender"
  /\ senderAvatar' = AfterLookup(o)
  /\ IF Trim(snap.receiverUsername) # <<>>
     THEN /\ pc' = "awaitReceiver"
          /\ sent' = Append(sent, LookupQuery(snap.receiverUsername))
          /\ cardData' = MakeCard(snap, AfterLookup(o), receiverAvatar)
          /\ UNCHANGED <<step, loading, receiverAvatar>>
     ELSE /\ Finish(snap, AfterLookup(o), receiverAvatar)
          /\ UNCHANGED <<sent, receiverAvatar>>
  /\ UNCHANGED <<formVars, snap, hgResult, apiVars, pureVars>>

\* The sender's lookup settles: the handler runs on to the receiver's
\* lookup, or to its end.
SenderSettled(o) ==
  /\ pc = "awaitSender"
  /\ senderAvatar' = AfterLookup(o)
  /\ IF Trim(snap.receiverUsername) # <<>>
     THEN /\ pc' = "awaitReceiver"
          /\ sent' = Append(sent, LookupQuery(snap.receiverUsername))
          /\ UNCHANGED <<step, cardData, loading, receiverAvatar>>
     ELSE /\ Finish(snap, AfterLookup(o), receiverAvatar)
          /\ UNCHANGED <<sent, receiverAvatar>>
  /\ UNCHANGED <<formVars, snap, hgResult, apiVars, pureVars>>

\* A handler whose last step reads the form as it is now, not as it was
\* when Generate was clicked.
ReceiverSettled_LiveForm(o) ==
  /\ pc = "awaitReceiver"
  /\ receiverAvatar' = AfterLookup(o)
  /\ Finish(CurrentForm, senderAvatar, AfterLookup(o))
  /\ UNCHANGED <<formVars, snap, senderAvatar, sent, hgResult, apiVars,
                 pureVars>>

\* The receiver's lookup settles and the handler runs to its end.
ReceiverSettled(o) ==
  /\ pc = "awaitReceiver"
  /\ receiverAvatar' = AfterLookup(o)
  /\ Finish(snap, senderAvatar, AfterLookup(o))
  /\ UNCHANGED <<formVars, snap, senderAvatar, sent, hgResult, apiVars,
                 pureVars>>

\* onChange of the five inputs of FormStep.
SetSenderName(v) ==
  /\ step = "form"
  /\ senderName' = v
  /\ UNCHANGED <<senderUsername, receiverUsername, receiverName, message,
                 step, cardData, loading, handlerVars, apiVars, pureVars>>

SetSenderUsername(v) ==
  /\ step = "form"
  /\ senderUsername' = v
  /\ UNCHANGED <<senderName, receiverUsername, receiverName, message,
                 step, cardData, loading, handlerVars, apiVars, pureVars>>

SetReceiverName(v) ==
  /\ step = "form"
  /\ receiverName' = v
  /\ UNCHANGED <<senderUsername, senderName, receiverUsername, message,
                 step, cardData, loading, handlerVars, apiVars, pureVars>>

SetReceiverUsername(v) ==
  /\ step = "form"
  /\ receiverUsername' = v
  /\ UNCHANGED <<senderUsername, senderName, receiverName, message,
                 step, cardData, loading, handlerVars, apiVars, pureVars>>

SetMessage(v) ==
  /\ step = "form"
  /\ message' = v
  /\ UNCHANGED <<senderUsername, senderName, receiverUsername, receiverName,
                 step, cardData, loading, handlerVars, apiVars, pureVars>>

\* link.download = `valentine-seismic-${cardData.receiverName || "card"}.jpg`
FileName(card) ==
  <<"valentine-seismic-">>
    \o (IF card.receiverName # <<>> THEN card.receiverName
        ELSE <<"c", "a", "r", "d">>)
    \o <<".jpg">>

\* An Edit button that also throws the card away.
Back_ClearsCard ==
  /\ step = "card"
  /\ step' = "form"
  /\ cardData' = NoCard
  /\ UNCHANGED <<formVars, loading, handlerVars, apiVars, pureVars>>

\* onBack={() => setStep("form")}
Back ==
  /\ step = "card"
  /\ step' = "form"
  /\ UNCHANGED <<formVars, cardData, loading, handlerVars, apiVars, pureVars>>

\* A click on Download, the button of the card view: handleDownload as a
\* whole.  It returns at once without a card; otherwise it renders the card
\* and offers the image under the file name.  It calls no state setter.
Download ==
  /\ step = "card"
  /\ link' = IF cardData.isNull THEN link ELSE FileName(cardData)
  /\ UNCHANGED <<pageVars, apiVars, fontVars, capVars,
                 rPc, rCard, loads, drawn, caught>>

Next ==
  \/ HandleGenerate
  \/ \E o \in LookupOutcomes(snap.senderUsername) : SenderSettled(o)
  \/ \E o \in LookupOutcomes(snap.receiverUsername) : ReceiverSettled(o)
  \/ \E v \in SenderNames : SetSenderName(v)
  \/ \E v \in SenderHandles : SetSenderUsername(v)
  \/ \E v \in ReceiverNames : SetReceiverName(v)
  \/ \E v \in ReceiverHandles : SetReceiverUsername(v)
  \/ \E v \in Messages : SetMessage(v)
  \/ Back
  \/ Download

Init == ApiQuiet /\ PageInit /\ FontQuiet /\ CapQuiet /\ RenderQuiet

Spec == Init /\ [][Next]_vars

\* fetch(...) is called without a signal or a timer: when the directory or
\* the route never responds, the promise the handler awaits stays pending and
\* the handler never resumes.
LookupNeverAnswers ==
  /\ pc \in {"awaitSender", "awaitReceiver"}
  /\ pc' = "awaitForever"
  /\ UNCHANGED <<step, formVars, cardData, loading, snap, senderAvatar,
                 receiverAvatar, sent, hgResult, apiVars, pureVars>>

\* The two ways a lookup that does respond can settle: the fetch rejects,
\* or the route answers with an avatar URL.
LiveOutcomes ==
  { Fetched("reject", FALSE, "throws", Undefined),
    Fetched("http", TRUE, "object",
            Str(<<"https://cdn.discordapp.com/embed/avatars/", "0", ".png">>)) }

NextLive ==
  \/ HandleGenerate
  \/ \E o \in LiveOutcomes : SenderSettled(o)
  \/ \E o \in LiveOutcomes : ReceiverSettled(o)
  \/ LookupNeverAnswers
  \/ Back
  \/ Download

\* The page with its form filled in.
InitLive ==
  /\ ApiQuiet /\ FontQuiet /\ CapQuiet /\ RenderQuiet
  /\ step = "form"
  /\ senderUsername \in SenderHandles
  /\ senderName \in SenderNames
  /\ receiverUsername \in ReceiverHandles
  /\ receiverName \in ReceiverNames
  /\ message \in Messages
  /\ cardData = NoCard
  /\ loading = FALSE
  /\ pc = "idle"
  /\ snap = Form(<<>>, <<>>, <<>>, <<>>, <<>>)
  /\ senderAvatar = Null
  /\ receiverAvatar = Null
  /\ sent = <<>>
  /\ hgResult = "none"

\* The event loop resumes the handler whenever the awaited lookup has
\* settled: a lookup that is going to answer is eventually delivered.
Delivery ==
  /\ WF_vars(\E o \in LiveOutcomes : SenderSettled(o))
  /\ WF_vars(\E o \in LiveOutcomes : ReceiverSettled(o))

SpecLive == InitLive /\ [][NextLive]_vars /\ Delivery

(***************************************************************************)
(* The message font size: the canvas renderer and the on-screen preview    *)
(***************************************************************************)
\* maxLength of the message textarea.
MaxLength == 200

\* renderCardToCanvas with the first threshold exclusive.
BaseFontSize_Strict(len) ==
  IF len < 40 THEN 24
  ELSE IF len <= 80 THEN 20
  ELSE IF len <= 120 THEN 18
  ELSE IF len <= 160 THEN 16 ELSE 14

\* renderCardToCanvas: const baseFontSize = msgLen <= 40 ? 24 : ...
BaseFontSize(len) ==
  IF len <= 40 THEN 24
  ELSE IF len <= 80 THEN 20
  ELSE IF len <= 120 THEN 18
  ELSE IF len <= 160 THEN 16 ELSE 14

\* CardStep: const baseMsgFont = msgLen <= 40 ? 24 : ...
BaseMsgFont(len) ==
  IF len <= 40 THEN 24
  ELSE IF len <= 80 THEN 20
  ELSE IF len <= 120 THEN 18
  ELSE IF len <= 160 THEN 16 ELSE 14

\* A card whose message has any length the textarea allows; nothing is
\* rendered yet (font 0).
FontInit == msgLen \in 0..MaxLength /\ previewFont = 0 /\ canvasFont = 0

\* CardStep renders the preview.
RenderPreview ==
  /\ previewFont' = BaseMsgFont(msgLen)
  /\ UNCHANGED <<msgLen, canvasFont, apiVars, pageVars, capVars, renderVars>>

\* handleDownload renders the canvas.
RenderCanvas ==
  /\ canvasFont' = BaseFontSize(msgLen)
  /\ UNCHANGED <<msgLen, previewFont, apiVars, pageVars, capVars, renderVars>>

FontNext == RenderPreview \/ RenderCanvas

InitFont == ApiQuiet /\ PageInit /\ FontInit /\ CapQuiet /\ RenderQuiet

SpecFont == InitFont /\ [][FontNext]_vars

(***************************************************************************)
(* capitalize: the display names as the card shows them                    *)
(***************************************************************************)
\* String.prototype.toUpperCase on one UTF-16 code unit, for the characters
\* the model offers.  The result is a string: the upper case of the sharp s
\* is the two letters SS.
UpperChar(c) ==
  CASE c = "a" -> <<"A">>
    [] c = "m" -> <<"M">>
    [] c = "n" -> <<"N">>
    [] c = "r" -> <<"R">>
    [] c = "y" -> <<"Y">>
    [] c = "ß" -> <<"S", "S">>
    [] OTHER -> <<c>>

\* name.split(" "): the pieces between single spaces, empty pieces kept;
\* "".split(" ") is [""].
RECURSIVE SplitFrom(_, _)
SplitFrom(s, word) ==
  IF s = <<>> THEN <<word>>
  ELSE IF Head(s) = " " THEN <<word>> \o SplitFrom(Tail(s), <<>>)
  ELSE SplitFrom(Tail(s), Append(word, Head(s)))

SplitSpace(s) == SplitFrom(s, <<>>)

\* (w) => w.charAt(0).toUpperCase() + w.slice(1); charAt(0) of "" is "".
CapWord(w) ==
  IF w = <<>> THEN <<>> ELSE UpperChar(w[1]) \o Tail(w)

\* words.join(" ")
RECURSIVE JoinSpace(_)
JoinSpace(ws) ==
  IF Len(ws) = 0 THEN <<>>
  ELSE IF Len(ws) = 1 THEN ws[1]
  ELSE ws[1] \o <<" ">> \o JoinSpace(Tail(ws))

\* A capitalize that treats the whole name as one word.
capitalize_FirstWord(name) == CapWord(name)

\* function capitalize(name)
capitalize(name) ==
  LET words == SplitSpace(name)
  IN  JoinSpace([i \in 1..Len(words) |-> CapWord(words[i])])

\* The longest name the model enumerates in full.
MaxNameLen == 3

NameChars == {" ", "a", "B", "ß"}

RECURSIVE StringsUpTo(_)
StringsUpTo(n) ==
  IF n = 0 THEN {<<>>}
  ELSE LET shorter == StringsUpTo(n - 1)
       IN  shorter \cup {Append(s, c) : s \in {t \in shorter : Len(t) = n - 1},
                                         c \in NameChars}

MaryAnn == <<"m", "a", "r", "y", " ", "a", "n", "n">>

Names == StringsUpTo(MaxNameLen) \cup {MaryAnn}

CapInit == capIn \in Names /\ capOut = <<>> /\ capTwice = <<>> /\ capPc = "in"

\* capitalize(name)
Capitalize ==
  /\ capPc = "in"
  /\ capOut' = capitalize(capIn)
  /\ capPc' = "once"
  /\ UNCHANGED <<capIn, capTwice, apiVars, pageVars, fontVars, renderVars>>

\* capitalize(capitalize(name))
CapitalizeAgain ==
  /\ capPc = "once"
  /\ capTwice' = capitalize(capOut)
  /\ capPc' = "done"
  /\ UNCHANGED <<capIn, capOut, apiVars, pageVars, fontVars, renderVars>>

CapNext == Capitalize \/ CapitalizeAgain

InitCap == ApiQuiet /\ PageInit /\ FontQuiet /\ CapInit /\ RenderQuiet

SpecCap == InitCap /\ [][CapNext]_vars

(***************************************************************************)
(* renderCardToCanvas and handleDownload                                   *)
(***************************************************************************)
\* One canvas operation: what is drawn, with what (an image source, a
\* colour or a text), and its size in canvas pixels.
Op(o, w, sz) == [op |-> o, what |-> w, size |-> sz]

\* The result of a step of the renderer: whether it threw, and what it drew.
Drew(ops) == [threw |-> FALSE, ops |-> ops]

Rejected == [threw |-> TRUE, ops |-> <<>>]

\* 1. try { envelope = await loadImage("/envelope.jpg"); ctx.drawImage(...) }
\*    catch { ctx.fillStyle = "#f5ddd1"; ctx.fillRect(0, 0, SIZE, SIZE) }
Envelope(ok) ==
  IF ok THEN Drew(<<Op("drawImage", <<"/envelope.jpg">>, 1080)>>)
        ELSE Drew(<<Op("fillRect", <<"#f5ddd1">>, 1080)>>)

\* 2. the two lines of the top-right branding
TopBranding ==
  << Op("fillText", <<"HAPPY VALENTINE'S DAY">>, 20),
     Op("fillText", <<"Seismic Community 2026">>, 16) >>

\* drawCircleImage: the border disc, then the image clipped to the circle.
drawCircleImage(src, radius, borderWidth, borderColor) ==
  << Op("arc", <<borderColor>>, radius + borderWidth),
     Op("drawImage", src, radius) >>

\* An avatar step whose try has no catch.
Avatar_NoCatch(avatar, radius, borderWidth, borderColor, ok) ==
  IF ok
  THEN Drew(drawCircleImage(Or(avatar, Str(<<>>)).v, radius, borderWidth,
                            borderColor))
  ELSE Rejected

\* 3. and 6.  try { img = await loadImage(avatar || ""); drawCircleImage(...) }
\*            catch { ctx.arc(...); ctx.fillStyle = "rgba(158,123,159,0.15)";
\*                    ctx.fill() }
Avatar(avatar, radius, borderWidth, borderColor, ok) ==
  IF ok
  THEN Drew(drawCircleImage(Or(avatar, Str(<<>>)).v, radius, borderWidth,
                            borderColor))
  ELSE Drew(<<Op("arc", <<"rgba(158,123,159,0.15)">>, radius)>>)

ReceiverAvatar(card, ok) ==
  Avatar(card.receiverAvatar, 32, 4, "rgba(158,123,159,0.4)", ok)

SenderAvatar(card, ok) ==
  Avatar(card.senderAvatar, 44, 5, "rgba(255,255,255,0.6)", ok)

\* 4. ctx.fillText(`Dear ${capitalize(cardData.receiverName)},`, ...)
Dear(card) ==
  Op("fillText", <<"Dear ">> \o capitalize(card.receiverName) \o <<",">>, 40)

\* 5. the message, wrapped, at the font size its length selects
MessageText(card) ==
  Op("wrapText", card.message, BaseFontSize(Len(card.message)) * 2)

\* 7. ctx.fillText(`With love, ${capitalize(cardData.senderName)} <heart>`, ...);
\* the heart is written by its code point
WithLove(card) ==
  Op("fillText",
     <<"With love, ">> \o capitalize(card.senderName) \o <<" ", "U+2665">>, 36)

\* 8. the bottom branding
BottomBranding == <<Op("fillText", <<"U+2665", " WOULD YOU BE MY VALENTINE? ", "U+2665">>, 18)>>

\* What a lookup stored in the handler's local for a handle: nothing when
\* the trimmed handle is empty, else what AfterLookup kept of the outcome.
LookedUp(handle) ==
  IF Trim(handle) = <<>> THEN {Null}
  ELSE {AfterLookup(o) : o \in LookupOutcomes(handle)}

\* The cards handleGenerate can have written.
RenderCards ==
  { MakeCard(f, sa, ra) :
      f \in { g \in { Form(su, sn, ru, rn, msg) :
                        su \in SenderHandles, sn \in SenderNames,
                        ru \in ReceiverHandles, rn \in ReceiverNames,
                        msg \in Messages } : ~NamesMissing(g) },
      sa \in UNION {LookedUp(su) : su \in SenderHandles},
      ra \in UNION {LookedUp(ru) : ru \in ReceiverHandles} }

\* The card view with a card in it, before Download is clicked.
RenderInit ==
  /\ rPc = "idle" /\ rCard \in RenderCards /\ loads = <<>> /\ drawn = <<>>
  /\ caught = FALSE /\ link = NoLink

\* handleDownload up to the first await inside renderCardToCanvas.
HandleDownload ==
  /\ rPc = "idle"
  /\ ~rCard.isNull
  /\ rPc' = "awaitEnvelope"
  /\ UNCHANGED <<rCard, loads, drawn, caught, link,
                 apiVars, pageVars, fontVars, capVars>>

\* Where a step of the renderer leaves handleDownload: a step that threw
\* rejects renderCardToCanvas, which lands in handleDownload's catch
\* (console.error, nothing offered); otherwise the step's operations and the
\* synchronous steps after it are on the canvas.
After(r, more, nextPc) ==
  IF r.threw
  THEN [pc |-> "done", drawn |-> drawn, caught |-> TRUE]
  ELSE [pc |-> nextPc, drawn |-> drawn \o r.ops \o more, caught |-> caught]

\* The envelope image settles: step 1, then step 2, then the receiver's
\* avatar starts loading.
EnvelopeSettled(ok) ==
  /\ rPc = "awaitEnvelope"
  /\ loads' = Append(loads, ok)
  /\ LET a == After(Envelope(ok), TopBranding, "awaitReceiverImage")
     IN  rPc' = a.pc /\ drawn' = a.drawn /\ caught' = a.caught
  /\ UNCHANGED <<rCard, link, apiVars, pageVars, fontVars, capVars>>

\* The receiver's avatar settles: step 3, steps 4 and 5, then the sender's
\* avatar starts loading.
ReceiverImageSettled(ok) ==
  /\ rPc = "awaitReceiverImage"
  /\ loads' = Append(loads, ok)
  /\ LET a == After(ReceiverAvatar(rCard, ok),
                    <<Dear(rCard), MessageText(rCard)>>, "awaitSenderImage")
     IN  rPc' = a.pc /\ drawn' = a.drawn /\ caught' = a.caught
  /\ UNCHANGED <<rCard, link, apiVars, pageVars, fontVars, capVars>>

\* The sender's avatar settles: step 6, steps 7 and 8, the canvas is
\* returned, and handleDownload offers it under the file name.
SenderImageSettled(ok) ==
  /\ rPc = "awaitSenderImage"
  /\ loads' = Append(loads, ok)
  /\ LET a == After(SenderAvatar(rCard, ok),
                    <<WithLove(rCard)>> \o BottomBranding, "done")
     IN  /\ rPc' = a.pc /\ drawn' = a.drawn /\ caught' = a.caught
         /\ link' = IF a.caught THEN link ELSE FileName(rCard)
  /\ UNCHANGED <<rCard, apiVars, pageVars, fontVars, capVars>>

RenderNext ==
  \/ HandleDownload
  \/ \E ok \in BOOLEAN : EnvelopeSettled(ok)
  \/ \E ok \in BOOLEAN : ReceiverImageSettled(ok)
  \/ \E ok \in BOOLEAN : SenderImageSettled(ok)

InitRender == ApiQuiet /\ PageInit /\ FontQuiet /\ CapQuiet /\ RenderInit

SpecRender == InitRender /\ [][RenderNext]_vars

(***************************************************************************)
(* Properties of the page (checked under Spec)                             *)
(***************************************************************************)
\* The form fields the latest finished handler worked on, and the seed of
\* each party's fallback: the trimmed handle, else the trimmed name.
SenderSeed ==
  IF Trim(snap.senderUsername) # <<>>
  THEN Trim(snap.senderUsername) ELSE Trim(snap.senderName)

ReceiverSeed ==
  IF Trim(snap.receiverUsername) # <<>>
  THEN Trim(snap.receiverUsername) ELSE Trim(snap.receiverName)

\* A non-null, non-empty string.
NonEmptyString(x) == x.t = "str" /\ Len(x.v) > 0

\* C1: whatever the two lookups gave, the CardData that handleGenerate
\* stores has senderAvatar and receiverAvatar both non-null, non-empty
\* strings.
C1_AvatarsAlwaysPopulated ==
  ~cardData.isNull =>
    /\ NonEmptyString(cardData.senderAvatar)
    /\ NonEmptyString(cardData.receiverAvatar)

\* A card was stored after the sender's lookup gave an empty avatarUrl and
\* the receiver's gave none.
C1_Witness ==
  /\ pc = "idle"
  /\ ~cardData.isNull
  /\ Len(sent) = 2
  /\ senderAvatar = Str(<<>>)
  /\ receiverAvatar = Null

\* C2: a handleGenerate call made while either display name is empty after
\* trimming changes nothing: no lookup request is issued and loading,
\* cardData, step and the form fields stay as they were.
C2_RejectIsNoOp ==
  [][ (pc = "idle" /\ step = "form"
         /\ (Trim(senderName) = <<>> \/ Trim(receiverName) = <<>>))
      => /\ UNCHANGED <<loading, cardData, step, sent, pc>>
         /\ (hgResult' # hgResult
               => hgResult' = "rejected" /\ UNCHANGED formVars) ]_vars

\* handleGenerate returned early on a receiver name of one space, with a
\* sender name and a sender handle typed in, and nothing was sent.
C2_Witness ==
  /\ hgResult = "rejected"
  /\ Trim(senderName) # <<>>
  /\ receiverName = <<" ">>
  /\ Trim(senderUsername) # <<>>
  /\ sent = <<>>
  /\ cardData.isNull
  /\ ~loading

\* C9: when a party's lookup yields no avatar URL (not attempted, or no
\* usable answer), that party's avatar in CardData is the fallback avatar
\* of its seed, the trimmed handle if non-empty and else the trimmed
\* display name; with no handles both are seeded from the display names.
C9_FallbackFromSeed ==
  (pc = "idle" /\ ~cardData.isNull) =>
    /\ ~Truthy(senderAvatar) =>
         cardData.senderAvatar = Str(getFallbackAvatar(SenderSeed))
    /\ ~Truthy(receiverAvatar) =>
         cardData.receiverAvatar = Str(getFallbackAvatar(ReceiverSeed))
    /\ sent = <<>> =>
         /\ cardData.senderAvatar
              = Str(getFallbackAvatar(Trim(snap.senderName)))
         /\ cardData.receiverAvatar
              = Str(getFallbackAvatar(Trim(snap.receiverName)))

\* A card whose sender avatar is the fallback seeded from the handle (the
\* lookup answered null) and whose receiver avatar is the fallback seeded
\* from the display name (no handle).
C9_Witness ==
  /\ pc = "idle"
  /\ ~cardData.isNull
  /\ Trim(snap.senderUsername) # <<>>
  /\ senderAvatar = Null
  /\ Trim(snap.receiverUsername) = <<>>
  /\ cardData.senderAvatar = Str(getFallbackAvatar(Trim(snap.senderUsername)))
  /\ cardData.receiverAvatar = Str(getFallbackAvatar(Trim(snap.receiverName)))

(***************************************************************************)
(* Properties of the route (checked under SpecApi)                         *)
(***************************************************************************)
Configured == Truthy(DISCORD_BOT_TOKEN) /\ Truthy(DISCORD_GUILD_ID)

\* The route answered normally with avatarUrl and displayName both null.
NullAnswer ==
  apiResp.status = 200 /\ apiResp.avatarUrl = Null /\ apiResp.displayName = Null

\* The directory answered with a list of candidates.
GotList == dirReply.kind = "http" /\ dirReply.ok /\ dirReply.json = "array"

HandleMatch(m, u) == m.hasUser /\ ToLowerCase(m.username) = ToLowerCase(u)

NickMatch(m, u) ==
  /\ m.hasUser
  /\ m.nick.t = "str" /\ m.nick.v # <<>>
  /\ ToLowerCase(m.nick.v) = ToLowerCase(u)

GlobalMatch(m, u) ==
  /\ m.hasUser
  /\ m.global_name.t = "str" /\ m.global_name.v # <<>>
  /\ ToLowerCase(m.global_name.v) = ToLowerCase(u)

AnyMatch(m, u) == HandleMatch(m, u) \/ NickMatch(m, u) \/ GlobalMatch(m, u)

\* The least index of ms whose member satisfies P(m, u); 0 if none does.
FirstIndex(P(_, _), ms, u) ==
  IF \E i \in 1..Len(ms) : P(ms[i], u)
  THEN CHOOSE i \in 1..Len(ms) :
         P(ms[i], u) /\ \A j \in 1..(i - 1) : ~P(ms[j], u)
  ELSE 0

\* The candidate the route selects according to the code: the first that
\* matches on any of the three names, else the first.
FirstAnyIndex(ms, u) ==
  IF FirstIndex(AnyMatch, ms, u) # 0 THEN FirstIndex(AnyMatch, ms, u) ELSE 1

\* The candidate selected when a handle match anywhere beats a nickname
\* match, which beats a global-name match.
PriorityIndex(ms, u) ==
  IF FirstIndex(HandleMatch, ms, u) # 0 THEN FirstIndex(HandleMatch, ms, u)
  ELSE IF FirstIndex(NickMatch, ms, u) # 0 THEN FirstIndex(NickMatch, ms, u)
  ELSE IF FirstIndex(GlobalMatch, ms, u) # 0 THEN FirstIndex(GlobalMatch, ms, u)
  ELSE 1

\* The search looks at the candidates in order up to the first match; every
\* candidate it looks at carries its user record.
ScanMeetsNoMissingUser(ms, u) ==
  \A i \in 1..Len(ms) :
    ~ms[i].hasUser => \E j \in 1..(i - 1) : AnyMatch(ms[j], u)

\* The route answered for a member of a non-empty candidate list.
Selected ==
  /\ apiPc = "done"
  /\ GotList
  /\ Len(dirReply.members) > 0
  /\ ScanMeetsNoMissingUser(dirReply.members, apiUsername.v)

\* The answer the route gives for member m.
AnswerFor(m) ==
  /\ apiResp.status = 200
  /\ apiResp.avatarUrl = Str(BuildAvatarUrl(m, DISCORD_GUILD_ID.v))
  /\ apiResp.displayName = BuildDisplayName(m)
  /\ apiResp.username = Str(m.username)

\* C3: with the bot token or the guild id not configured, a request that
\* carries a handle is answered with avatarUrl null and displayName null,
\* and no directory call is ever made.
C3_UnconfiguredAnswersNull ==
  ~Configured =>
    /\ dirCalls = 0
    /\ apiPc # "awaitDirectory"
    /\ (apiPc = "done" /\ Truthy(apiUsername)) => NullAnswer

\* A request with a handle was answered while the token is set and the
\* guild id is not.
C3_Witness ==
  /\ apiPc = "done"
  /\ Truthy(apiUsername)
  /\ Truthy(DISCORD_BOT_TOKEN)
  /\ ~Truthy(DISCORD_GUILD_ID)
  /\ NullAnswer

\* C4 as claimed: every failure of the directory call, a candidate without
\* its user record anywhere in the list included, ends in a normal response
\* with avatarUrl and displayName null.
C4_Original ==
  (apiPc = "done" /\ dirReply.kind # "none"
     /\ (\/ dirReply.kind = "reject"
         \/ (dirReply.kind = "http" /\ ~dirReply.ok)
         \/ (dirReply.kind = "http" /\ dirReply.ok /\ dirReply.json = "throws")
         \/ (GotList /\ \E i \in 1..Len(dirReply.members) :
                          ~dirReply.members[i].hasUser)))
  => NullAnswer

\* C4 amended: the route never throws (every request ends in a 200 or the
\* 400), and a rejected fetch, a non-OK status, an unparsable body, or a
\* candidate without its user record that the search reaches (no earlier
\* candidate matches exactly) ends in a normal response with avatarUrl and
\* displayName null.
C4_NeverThrows ==
  apiPc = "done" =>
    /\ apiResp.status \in {200, 400}
    /\ (dirReply.kind # "none"
          /\ (\/ dirReply.kind = "reject"
              \/ (dirReply.kind = "http" /\ ~dirReply.ok)
              \/ (dirReply.kind = "http" /\ dirReply.ok
                    /\ dirReply.json = "throws")
              \/ (GotList
                    /\ ~ScanMeetsNoMissingUser(dirReply.members,
                                               apiUsername.v))))
       => NullAnswer

\* The directory listed a matching candidate after one without a user
\* record, and the route answered with nulls.
C4_Witness ==
  /\ apiPc = "done"
  /\ GotList
  /\ Len(dirReply.members) = 2
  /\ ~dirReply.members[1].hasUser
  /\ AnyMatch(dirReply.members[2], apiUsername.v)
  /\ NullAnswer

\* C5: the route answers 400 with an error body exactly when the username
\* parameter is missing or empty, and then makes no directory call; every
\* request with a non-empty handle is answered 200.
C5_StatusCodes ==
  apiPc = "done" =>
    /\ (apiResp.status = 400) <=> ~(apiUsername.t = "str" /\ apiUsername.v # <<>>)
    /\ apiResp.status = 400 => (Truthy(apiResp.error) /\ dirCalls = 0)
    /\ (apiUsername.t = "str" /\ apiUsername.v # <<>>) => apiResp.status = 200

\* An empty username was refused by a configured route.
C5_Witness ==
  /\ apiPc = "done"
  /\ apiUsername = Str(<<>>)
  /\ Configured
  /\ apiResp.status = 400
  /\ dirCalls = 0

\* C6 as claimed: a candidate whose handle matches is selected before one
\* that matches only by nickname, and that before one that matches only by
\* global name, wherever they stand in the list.
C6_Original ==
  Selected => AnswerFor(dirReply.members[PriorityIndex(dirReply.members,
                                                       apiUsername.v)])

\* C6 amended: the route selects the first candidate, in the order
\* returned, that matches the handle exactly and case-insensitively on its
\* handle, its nickname or its global name; if none does, the first
\* candidate.
C6_FirstMatchOnAnyName ==
  Selected => AnswerFor(dirReply.members[FirstAnyIndex(dirReply.members,
                                                       apiUsername.v)])

\* The second of two candidates matched, by nickname and in another case,
\* and the route answered for it.
C6_Witness ==
  /\ Selected
  /\ Len(dirReply.members) = 2
  /\ ~AnyMatch(dirReply.members[1], apiUsername.v)
  /\ NickMatch(dirReply.members[2], apiUsername.v)
  /\ dirReply.members[2].nick.v # apiUsername.v
  /\ apiResp.username = Str(dirReply.members[2].username)
  /\ apiResp.username # Str(dirReply.members[1].username)

GuildPattern == "https://cdn.discordapp.com/guilds/"

AccountPattern == "https://cdn.discordapp.com/avatars/"

DefaultPattern == "https://cdn.discordapp.com/embed/avatars/"

SelectedMember == dirReply.members[FirstAnyIndex(dirReply.members, apiUsername.v)]

HasAvatar(x) == x.t = "str" /\ x.v # <<>>

\* C7: the URL returned for the selected member is the guild-avatar
\* pattern whenever the member has a guild avatar, the account-avatar
\* pattern only when it has none and the account has one, and the default
\* pattern only when both are absent.
C7_AvatarPrecedence ==
  Selected =>
    /\ apiResp.avatarUrl.t = "str"
    /\ Head(apiResp.avatarUrl.v) \in {GuildPattern, AccountPattern, DefaultPattern}
    /\ Head(apiResp.avatarUrl.v) = GuildPattern
         <=> HasAvatar(SelectedMember.avatar)
    /\ Head(apiResp.avatarUrl.v) = AccountPattern
         <=> (~HasAvatar(SelectedMember.avatar) /\ HasAvatar(SelectedMember.uavatar))
    /\ Head(apiResp.avatarUrl.v) = DefaultPattern
         <=> (~HasAvatar(SelectedMember.avatar) /\ ~HasAvatar(SelectedMember.uavatar))

\* The selected member has both a guild avatar and an account avatar, and
\* the guild pattern was returned.
C7_Witness ==
  /\ Selected
  /\ HasAvatar(SelectedMember.avatar)
  /\ HasAvatar(SelectedMember.uavatar)
  /\ Head(apiResp.avatarUrl.v) = GuildPattern

\* C8: when the selected account has no custom avatar, the index in the
\* returned URL is (id >> 22) mod 6 of the 64-bit account identifier, one
\* of 0..5.
C8_DefaultIndex ==
  (Selected /\ ~HasAvatar(SelectedMember.avatar)
     /\ ~HasAvatar(SelectedMember.uavatar))
  => /\ DefaultIndexBigInt(SelectedMember.id) \in 0..5
     /\ apiResp.avatarUrl
          = Str(<<DefaultPattern,
                  ToString(DefaultIndexBigInt(SelectedMember.id)), ".png">>)

(***************************************************************************)
(* Properties of the font size (checked under SpecFont)                    *)
(***************************************************************************)
\* The step function of the claim, by ranges.
StepSize(len) ==
  CASE len \in 0..40 -> 24
    [] len \in 41..80 -> 20
    [] len \in 81..120 -> 18
    [] len \in 121..160 -> 16
    [] OTHER -> 14

\* C10: the message font size is 24 up to 40 characters, 20 up to 80, 18 up
\* to 120, 16 up to 160 and 14 above, and the preview and the canvas choose
\* the same size for every message length.
C10_FontSteps ==
  /\ previewFont # 0 => previewFont = StepSize(msgLen)
  /\ canvasFont # 0 => canvasFont = StepSize(msgLen)
  /\ (previewFont # 0 /\ canvasFont # 0) => previewFont = canvasFont

\* Both renderings of a 41-character message chose 20.
C10_Witness == msgLen = 41 /\ previewFont = 20 /\ canvasFont = 20

(***************************************************************************)
(* Properties of capitalize (checked under SpecCap)                        *)
(***************************************************************************)
\* The character at position i starts a word: it is not a space and it is
\* the first character or follows a space.
WordStart(s, i) == s[i] # " " /\ (i = 1 \/ s[i - 1] = " ")

\* The name read left to right, each word's first character replaced by
\* its upper case and every other character as it is.
RECURSIVE ExpectedFrom(_, _)
ExpectedFrom(s, i) ==
  IF i > Len(s) THEN <<>>
  ELSE (IF WordStart(s, i) THEN UpperChar(s[i]) ELSE <<s[i]>>)
       \o ExpectedFrom(s, i + 1)

Expected(s) == ExpectedFrom(s, 1)

\* Every word's first character has a one-character upper case.
SingleUpper(s) ==
  \A i \in 1..Len(s) : WordStart(s, i) => Len(UpperChar(s[i])) = 1

\* C11 as stated: capitalize uppercases the first character of every
\* space-separated word and leaves all other characters unchanged, with
\* spacing and length preserved; capitalize("") is ""; capitalize applied
\* twice gives the same as once.
C11_Original ==
  capPc = "done" =>
    /\ capOut = Expected(capIn)
    /\ Len(capOut) = Len(capIn)
    /\ \A i \in 1..Len(capIn) : capIn[i] = " " <=> capOut[i] = " "
    /\ (capIn = <<>> => capOut = <<>>)
    /\ capTwice = capOut

\* C11 (amended): capitalize replaces the first character of every
\* space-separated word by its upper case, which may be longer than one
\* character, and leaves all other characters unchanged; length and the
\* positions of the spaces are preserved when every such upper case is one
\* character; capitalize("") is ""; capitalize applied twice gives the same
\* as once.
C11_Capitalize ==
  capPc = "done" =>
    /\ capOut = Expected(capIn)
    /\ SingleUpper(capIn) =>
         /\ Len(capOut) = Len(capIn)
         /\ \A i \in 1..Len(capIn) : capIn[i] = " " <=> capOut[i] = " "
    /\ (capIn = <<>> => capOut = <<>>)
    /\ (capIn = MaryAnn =>
          capOut = <<"M", "a", "r", "y", " ", "A", "n", "n">>)
    /\ capTwice = capOut

\* Two words, the second one's first character with a two-letter upper
\* case, capitalized twice.
C11_Witness ==
  /\ capPc = "done"
  /\ capIn = <<"a", " ", "ß">>
  /\ capOut = <<"A", " ", "S", "S">>
  /\ capTwice = capOut

(***************************************************************************)
(* Properties of the renderer (checked under SpecRender)                   *)
(***************************************************************************)
\* The solid-colour substitutes of the three images.
SolidBackground == Op("fillRect", <<"#f5ddd1">>, 1080)

SolidDisc(radius) == Op("arc", <<"rgba(158,123,159,0.15)">>, radius)

\* The number of operations an avatar step leaves: border and image, or the
\* substitute disc.
AvatarOps(ok) == IF ok THEN 2 ELSE 1

\* C12: for every combination of load outcomes of the three images,
\* renderCardToCanvas completes: a failed load is replaced by its
\* solid-colour substitute, every later step is drawn whatever failed
\* before it, the finished canvas is offered for download, and
\* handleDownload's catch never runs.
C12_RenderCompletes ==
  /\ ~caught
  /\ (rPc = "done" <=> Len(loads) = 3)
  /\ (link # NoLink <=> rPc = "done")
  /\ Len(loads) >= 1 =>
       /\ drawn[1] = IF loads[1] THEN Op("drawImage", <<"/envelope.jpg">>, 1080)
                                 ELSE SolidBackground
       /\ drawn[2].what = <<"HAPPY VALENTINE'S DAY">>
       /\ drawn[3].what = <<"Seismic Community 2026">>
  /\ Len(loads) >= 2 =>
       LET k == 3 + AvatarOps(loads[2])
       IN  /\ drawn[k] = IF loads[2]
                         THEN Op("drawImage", rCard.receiverAvatar.v, 32)
                         ELSE SolidDisc(32)
           /\ drawn[k + 1].op = "fillText"
           /\ drawn[k + 1].what[1] = "Dear "
           /\ drawn[k + 2] = Op("wrapText", rCard.message, drawn[k + 2].size)
  /\ Len(loads) = 3 =>
       LET k == 5 + AvatarOps(loads[2]) + AvatarOps(loads[3])
       IN  /\ drawn[k] = IF loads[3]
                         THEN Op("drawImage", rCard.senderAvatar.v, 44)
                         ELSE SolidDisc(44)
           /\ drawn[k + 1].op = "fillText"
           /\ drawn[k + 1].what[1] = "With love, "
           /\ drawn[k + 2].what = <<"U+2665", " WOULD YOU BE MY VALENTINE? ", "U+2665">>
           /\ Len(drawn) = k + 2
           /\ link = <<"valentine-seismic-">> \o rCard.receiverName
                       \o <<".jpg">>

\* The background and the sender's avatar failed, the receiver's loaded,
\* and the download was offered.
C12_Witness ==
  /\ rPc = "done"
  /\ loads = <<FALSE, TRUE, FALSE>>
  /\ Len(drawn) = 10
  /\ link # NoLink

(***************************************************************************)
(* Progress of handleGenerate (checked under SpecLive)                     *)
(***************************************************************************)
\* C13: once handleGenerate has started with valid names, it eventually
\* sets loading back to false and shows the card, also when a lookup never
\* responds.
C13_GenerateNeverStalls == loading ~> (~loading /\ step = "card")

(***************************************************************************)
(* The submission as a whole (checked under Spec)                          *)
(***************************************************************************)
\* The lookups a submission of the form f makes, in order.
QueriesFor(f) ==
  (IF Trim(f.senderUsername) # <<>>
   THEN <<LookupQuery(f.senderUsername)>> ELSE <<>>)
  \o (IF Trim(f.receiverUsername) # <<>>
      THEN <<LookupQuery(f.receiverUsername)>> ELSE <<>>)

\* C14: within one submission cardData is written once, by the step that
\* ends the handler, after every lookup the handles call for has been issued
\* and has settled; that step writes both avatars (looked up or fallback)
\* together with step = "card", and while the handler is in flight neither
\* cardData nor step changes.
C14_CardWrittenOnceWhenComplete ==
  [][ /\ (cardData' # cardData \/ (step' = "card" /\ step # "card")) =>
           /\ pc' = "idle"
           /\ step' = "card"
           /\ ~loading'
           /\ sent' = QueriesFor(snap')
           /\ ~cardData'.isNull
           /\ cardData'.senderAvatar =
                Or(senderAvatar', Str(getFallbackAvatar(
                     IF Trim(snap'.senderUsername) # <<>>
                     THEN Trim(snap'.senderUsername)
                     ELSE Trim(snap'.senderName))))
           /\ cardData'.receiverAvatar =
                Or(receiverAvatar', Str(getFallbackAvatar(
                     IF Trim(snap'.receiverUsername) # <<>>
                     THEN Trim(snap'.receiverUsername)
                     ELSE Trim(snap'.receiverName))))
           /\ (pc = "idle" => hgResult' = "started" /\ sent' = <<>>)
      /\ (pc' # "idle" => UNCHANGED <<cardData, step>>) ]_vars

\* A submission with both handles has ended: the sender's lookup gave an
\* avatar, the receiver's gave none, and the card holds the one and the
\* fallback for the other.
C14_Witness ==
  /\ pc = "idle"
  /\ step = "card"
  /\ Len(sent) = 2
  /\ Truthy(senderAvatar)
  /\ cardData.senderAvatar = senderAvatar
  /\ receiverAvatar = Null
  /\ cardData.receiverAvatar = Str(getFallbackAvatar(<<"h", "&">>))

\* C15: in every reachable state of the page, step = "card" implies that
\* cardData is non-null with non-empty senderName and receiverName; Edit
\* changes only step, and Download changes no page state.
C15_CardViewHasCard ==
  /\ [](step = "card" =>
          /\ ~cardData.isNull
          /\ cardData.senderName # <<>>
          /\ cardData.receiverName # <<>>)
  /\ [][ /\ (step = "card" /\ step' = "form") =>
              UNCHANGED <<formVars, cardData, loading, handlerVars>>
         /\ link' # link => UNCHANGED pageVars ]_vars

\* The card was generated and downloaded, and Edit led back to the form
\* with the card still in place.
C15_Witness ==
  /\ step = "form"
  /\ link = <<"valentine-seismic-", "b", ".jpg">>
  /\ cardData.receiverName = <<"b">>
  /\ pc = "idle"

\* The lookups issued for the handles a card stores.
QueriesOfCard(card) ==
  (IF card.senderUsername # <<>>
   THEN <<encodeURIComponent(card.senderUsername)>> ELSE <<>>)
  \o (IF card.receiverUsername # <<>>
      THEN <<encodeURIComponent(card.receiverUsername)>> ELSE <<>>)

\* The seed of a party's fallback avatar, from the values a card stores.
SeedOf(handle, name) == IF handle # <<>> THEN handle ELSE name

\* C16: the CardData written at the end of a submission is built entirely
\* from the form values as they were when Generate was clicked.  The handler
\* takes its snapshot of the form at the click, edits made while the lookups
\* are in flight leave the snapshot alone, and the card's names, handles and
\* message are the snapshot's trimmed values, an avatar that was not looked
\* up is the fallback seeded from the card's own handle or name, and the
\* lookups issued are those for the handles the card stores.
C16_CardFromSubmitSnapshot ==
  [][ /\ (pc = "idle" /\ hgResult' = "started" /\ (pc' # "idle" \/ cardData' # cardData)) =>
           snap' = Form(senderUsername, senderName, receiverUsername,
                        receiverName, message)
      /\ (pc # "idle" => snap' = snap)
      /\ cardData' # cardData =>
           /\ cardData'.senderUsername = Trim(snap'.senderUsername)
           /\ cardData'.senderName = Trim(snap'.senderName)
           /\ cardData'.receiverUsername = Trim(snap'.receiverUsername)
           /\ cardData'.receiverName = Trim(snap'.receiverName)
           /\ cardData'.message = Trim(snap'.message)
           /\ (~Truthy(senderAvatar') =>
                 cardData'.senderAvatar =
                   Str(getFallbackAvatar(SeedOf(cardData'.senderUsername,
                                                cardData'.senderName))))
           /\ (~Truthy(receiverAvatar') =>
                 cardData'.receiverAvatar =
                   Str(getFallbackAvatar(SeedOf(cardData'.receiverUsername,
                                                cardData'.receiverName))))
           /\ sent' = QueriesOfCard(cardData') ]_vars

\* A card on show whose sender handle, receiver name and message all differ
\* from what the form holds now, although the form can only be edited
\* before the card appears: the fields were edited while the two lookups
\* were in flight.
C16_Witness ==
  /\ step = "card"
  /\ pc = "idle"
  /\ Len(sent) = 2
  /\ cardData.senderUsername # Trim(senderUsername)
  /\ cardData.receiverName # Trim(receiverName)
  /\ cardData.message # Trim(message)
  /\ cardData.senderUsername = Trim(snap.senderUsername)

====
